---- MODULE Spec2Model ----
(***************************************************************************)
(* A model of bevy_mod_fbx's scene loader (src/src/loader.rs): one call of  *)
(* Loader::load on one parsed document.  The document (node forest, mesh    *)
(* objects, geometries, materials, textures) and the configured             *)
(* MaterialLoaders are the inputs; the state is the Loader struct (the      *)
(* scene and its caches), the LoadContext's labeled assets and the locals   *)
(* of Loader::load.  Transforms are numeric and carry no control flow; they *)
(* are left out of FbxObject.                                               *)
(***************************************************************************)
EXTENDS Integers, Sequences, FiniteSets, TLC

----------------------------------------------------------------------------
(* Bounds of the model *)

\* number of model nodes of the document in the hierarchy specification
NumNodes == 4
\* number of model nodes of the document in the load specifications
NumObjects == 2
\* longest list of MaterialLoaders configured
MaxLoaders == 2
\* most material connections of one mesh
MaxMeshMaterials == 2
\* most triangles of one mesh after triangulation
MaxTriangles == 2

\* material objects, texture objects and texture slot names of the document
Materials == {1, 2}
Textures == {1}
SlotNames == <<"s1">>
Slots == {SlotNames[i] : i \in DOMAIN SlotNames}
NoTexture == 0

\* Option<T>: None is <<>>, Some(x) is <<x>>
None == <<>>
Some(x) == <<x>>
NodeNames == {None, Some(""), Some("Cube")}
MaterialNames == {None, Some("Mat")}

----------------------------------------------------------------------------
(* Helpers: HashMap as a function, ascending enumeration of a set *)

EmptyMap == [k \in {} |-> 0]
Put(map, k, v) == [x \in (DOMAIN map) \cup {k} |-> IF x = k THEN v ELSE map[x]]
Min(S) == CHOOSE x \in S : \A y \in S : x <= y

RECURSIVE SetToSeq(_)
SetToSeq(S) == IF S = {} THEN <<>> ELSE <<Min(S)>> \o SetToSeq(S \ {Min(S)})

Range(s) == {s[i] : i \in DOMAIN s}
SeqsUpTo(S, n) == UNION {[1..k -> S] : k \in 0..n}

----------------------------------------------------------------------------
VARIABLES
    \* the document
    children,          \* node -> its child models, in order (child_models())
    subclass,          \* node -> "Mesh" | "LimbNode"          (subclass())
    roots,             \* doc.model_roots()
    objName,           \* node -> Option<String>               (name())
    meshMaterials,     \* mesh node -> its material connections (materials())
    geometry,          \* mesh node -> what its geometry object holds
    matName,           \* material -> Option<String>
    matTex,            \* material -> slot -> texture or NoTexture (load_texture)
    material_loaders,  \* Loader::material_loaders
    \* the load
    pc,                \* where Loader::load stands
    hierarchy,         \* local `hierarchy` of Loader::load
    meshes,            \* local `meshes` of Loader::load
    objIdx,            \* position of the `for obj in doc.objects()` loop
    cur,               \* locals of the load_mesh call in progress
    scene,             \* Loader::scene (FbxScene)
    assets,            \* labeled assets registered with the LoadContext
    result,            \* what FbxLoader::load returns
    \* history of the load, kept for the properties
    chainRuns,         \* material label -> times the loader chain was run for it
    lastResolve,       \* the last load_material call
    decodes            \* the get_texture calls made so far

docVars == <<children, subclass, roots, objName, meshMaterials, geometry,
             matName, matTex, material_loaders>>
loadVars == <<pc, hierarchy, meshes, objIdx, cur, scene, assets, result>>
histVars == <<chainRuns, lastResolve, decodes>>
vars == <<docVars, loadVars, histVars>>

----------------------------------------------------------------------------
(* The document's node forest *)

\* parent of each node: 0 is the scene root (the node is a model root), -1 no
\* connection at all; ids only name objects, so a parent has the smaller id
Forests(N) == {p \in [1..N -> -1..N] : \A n \in 1..N : p[n] < n}
ChildrenOf(p, N) == [n \in 1..N |-> SetToSeq({c \in 1..N : p[c] = n})]
RootsOf(p, N) == SetToSeq({c \in 1..N : p[c] = 0})

Nodes == DOMAIN children
child_models(node) == children[node]

RECURSIVE ReachFrom(_)
ReachFrom(S) ==
    LET S2 == S \cup {c \in Nodes : \E n \in S : c \in Range(children[n])}
    IN IF S2 = S THEN S ELSE ReachFrom(S2)
\* the node and everything below it
Subtree(n) == ReachFrom({n})
Descendants(n) == ReachFrom(Range(children[n]))
Reachable == ReachFrom(Range(roots))

----------------------------------------------------------------------------
(* HierarchyBuilder: traverse_hierarchy *)

FbxObject(node) == [name |-> objName[node],
                    children |-> child_models(node)]

\* lines 681-687: mesh_leaf after the children were walked
MeshLeafAlways(childLeaf, node) == TRUE
MeshLeafSelfOnly(childLeaf, node) == subclass[node] = "Mesh"
MeshLeaf(childLeaf, node) == childLeaf \/ subclass[node] = "Mesh"

RECURSIVE traverse_hierarchy_rec(_, _), traverse_children(_, _, _, _)
traverse_hierarchy_rec(node, h) ==
    LET walked == traverse_children(child_models(node), 1, FALSE, h)
        mesh_leaf == MeshLeaf(walked.mesh_leaf, node)
    IN [mesh_leaf |-> mesh_leaf,
        hierarchy |-> IF mesh_leaf
                      THEN Put(walked.hierarchy, node, FbxObject(node))
                      ELSE walked.hierarchy]
\* node.child_models().for_each(|child| mesh_leaf |= traverse_hierarchy_rec(..))
traverse_children(kids, i, leaf, h) ==
    IF i > Len(kids) THEN [mesh_leaf |-> leaf, hierarchy |-> h]
    ELSE LET r == traverse_hierarchy_rec(kids[i], h)
         IN traverse_children(kids, i + 1, leaf \/ r.mesh_leaf, r.hierarchy)

traverse_hierarchy(node, h) == traverse_hierarchy_rec(node, h).hierarchy

\* for root in &roots { traverse_hierarchy(*root, &mut hierarchy) }
RECURSIVE traverse_roots(_, _, _)
traverse_roots(rs, i, h) ==
    IF i > Len(rs) THEN h
    ELSE traverse_roots(rs, i + 1, traverse_hierarchy(rs[i], h))

----------------------------------------------------------------------------
(* Object ids, asset labels, handles, errors *)

\* raw object ids; models, materials, textures and geometries share one id space
MaterialId(m) == 100 + m
TextureId(t) == 200 + t
GeometryId(node) == 300 + node

\* the texture objects of the document are named after their ids
TextureName(t) == Some("Tex" \o ToString(t))

\* `Some(name) if !name.is_empty()`
NonEmpty(name) == name /= None /\ name[1] /= ""

\* lines 635-638
MaterialLabel(mat) ==
    IF NonEmpty(matName[mat]) THEN "FbxMaterial@" \o matName[mat][1]
    ELSE "FbxMaterial" \o ToString(MaterialId(mat))
\* lines 561-564: a texture read from a texture object
TextureLabel(tex) ==
    IF NonEmpty(TextureName(tex)) THEN "FbxTexture@" \o TextureName(tex)[1]
    ELSE "FbxTexture" \o ToString(TextureId(tex))
\* lines 565-568: a texture preprocessed by a MaterialLoader
ProcessedLabel(mat, slot) ==
    IF NonEmpty(matName[mat]) THEN "FbxTextureMat@" \o matName[mat][1] \o "/" \o slot
    ELSE "FbxTextureMat" \o ToString(MaterialId(mat)) \o "/" \o slot
\* lines 431-435
MeshLabel(node) ==
    IF objName[node] /= None THEN "FbxMesh@" \o objName[node][1]
    ELSE "FbxMesh" \o ToString(node)
\* lines 242-245, of the geometry object
PrimitiveLabelOfMesh(node) == MeshLabel(node) \o "/Primitive"
PrimitiveLabelPrefix(node) ==
    IF NonEmpty(geometry[node].name)
    THEN "FbxMesh@" \o geometry[node].name[1] \o "/Primitive"
    ELSE "FbxMesh" \o ToString(GeometryId(node)) \o "/Primitive"

\* add_labeled_asset returns the strong handle of the label's asset id
Handle(label) == [id |-> label, strong |-> TRUE]
clone_weak(h) == [h EXCEPT !.strong = FALSE]
\* Handle::default()
DefaultHandle == [id |-> "default", strong |-> FALSE]

\* anyhow errors: the chain of messages, outermost context first
Context(msg, chain) == <<msg>> \o chain
\* lines 113-116: error!("{err:?}"); Err(FbxLoadingError::Other(err.to_string()))
to_string(chain) == Head(chain)
LoadError(chain) == [kind |-> "Other", message |-> to_string(chain), logged |-> chain]

----------------------------------------------------------------------------
(* TextureResolver and MaterialResolver.  The operators thread
   ctx = [scene, assets, decodes, events, builds]: the Loader's scene, the
   LoadContext's assets and the history.  texOk says which texture objects
   get_texture can read and decode, build which loaders' with_textures
   return a material for the material at hand. *)

load_texture(mat, slot) == matTex[mat][slot]

Image(tex) == [kind |-> "Image", texture |-> tex, processed_by |-> 0]
LogEvent(ctx, li, step) == [ctx EXCEPT !.events = Append(@, <<li, step>>)]
\* the arguments of a call of with_textures
LogBuild(ctx, li, texture_handles) ==
    [LogEvent(ctx, li, "build") EXCEPT
        !.builds = Append(@, [loader |-> li, texture_handles |-> texture_handles])]

\* lines 593-629: get_texture, called for the reference cached under `label`
get_texture(ctx, tex, label, texOk) ==
    [ok |-> texOk[tex],
     image |-> Image(tex),
     err |-> <<"Failed to load texture image">>,
     ctx |-> [ctx EXCEPT !.decodes = @ \cup
                {[texture |-> tex, label |-> label,
                  cached |-> label \in DOMAIN ctx.scene.textures,
                  own_cached |-> TextureLabel(tex) \in DOMAIN ctx.scene.textures]}]]

\* lines 540-545
RECURSIVE load_dynamic(_, _, _, _, _, _)
load_dynamic(ctx, mat, dynamic_load, i, textures, texOk) ==
    IF i > Len(dynamic_load)
    THEN [ok |-> TRUE, ctx |-> ctx, textures |-> textures, err |-> <<>>]
    ELSE LET label == dynamic_load[i]
             tex == load_texture(mat, label)
         IN IF tex = NoTexture
            THEN load_dynamic(ctx, mat, dynamic_load, i + 1, textures, texOk)
            ELSE LET r == get_texture(ctx, tex, ProcessedLabel(mat, label), texOk)
                 IN IF ~r.ok
                    THEN [ok |-> FALSE, ctx |-> r.ctx, textures |-> textures,
                          err |-> r.err]
                    ELSE load_dynamic(r.ctx, mat, dynamic_load, i + 1,
                                      Put(textures, label, r.image), texOk)

\* line 546: the loader's preprocess_textures turns the images it was handed
\* into images of its own
preprocess_textures(li, textures) ==
    [l \in DOMAIN textures |-> [textures[l] EXCEPT !.processed_by = li]]

\* lines 549-556: the preprocessed images, then the static slots that have a texture
RECURSIVE processed_sources(_, _, _), static_sources(_, _, _), static_sources_all(_, _, _)
static_sources_all(mat, static_load, i) ==
    IF i > Len(static_load) THEN <<>>
    ELSE <<[label |-> static_load[i], source |-> "Handle", image |-> None,
            texture |-> IF load_texture(mat, static_load[i]) /= NoTexture
                        THEN load_texture(mat, static_load[i]) ELSE Min(Textures)]>>
         \o static_sources_all(mat, static_load, i + 1)
processed_sources(dynamic_load, i, textures) ==
    IF i > Len(dynamic_load) THEN <<>>
    ELSE (IF dynamic_load[i] \in DOMAIN textures
          THEN <<[label |-> dynamic_load[i], source |-> "Processed",
                  image |-> textures[dynamic_load[i]], texture |-> NoTexture]>>
          ELSE <<>>) \o processed_sources(dynamic_load, i + 1, textures)
static_sources(mat, static_load, i) ==
    IF i > Len(static_load) THEN <<>>
    ELSE (IF load_texture(mat, static_load[i]) /= NoTexture
          THEN <<[label |-> static_load[i], source |-> "Handle",
                  image |-> None, texture |-> load_texture(mat, static_load[i])]>>
          ELSE <<>>) \o static_sources(mat, static_load, i + 1)

texture_sources(mat, loader, textures) ==
    processed_sources(loader.dynamic_load, 1, textures)
    \o static_sources(mat, loader.static_load, 1)

\* lines 559-588
RECURSIVE bind_textures(_, _, _, _, _, _)
bind_textures(ctx, mat, sources, i, texture_handles, texOk) ==
    IF i > Len(sources)
    THEN [ok |-> TRUE, ctx |-> ctx, texture_handles |-> texture_handles, err |-> <<>>]
    ELSE
    LET s == sources[i]
        handle_label == IF s.source = "Handle" THEN TextureLabel(s.texture)
                        ELSE ProcessedLabel(mat, s.label)
    IN IF handle_label \in DOMAIN ctx.scene.textures
       THEN bind_textures(ctx, mat, sources, i + 1,
                Put(texture_handles, s.label, ctx.scene.textures[handle_label]),
                texOk)
       ELSE
       LET r == IF s.source = "Processed"
                THEN [ok |-> TRUE, image |-> s.image, err |-> <<>>, ctx |-> ctx]
                ELSE get_texture(ctx, s.texture, handle_label, texOk)
           handle == Handle(handle_label)
           ctx2 == [r.ctx EXCEPT
                      !.assets = Put(@, handle_label, r.image),
                      !.scene.textures = Put(@, handle_label, handle)]
       IN IF ~r.ok
          THEN [ok |-> FALSE, ctx |-> r.ctx, texture_handles |-> texture_handles,
                err |-> r.err]
          ELSE bind_textures(ctx2, mat, sources, i + 1,
                             Put(texture_handles, s.label, handle), texOk)

\* line 590: the loader's with_textures
with_textures(li, mat, texture_handles, build) ==
    IF build[li]
    THEN Some([kind |-> "StandardMaterial", loader |-> li, material |-> mat,
               textures |-> texture_handles])
    ELSE None

\* lines 521-591, run_loader: the dynamic slots (step 1), then the handles
\* (steps 2 and 3), then the loader's build (step 4)
run_loader_build(b, mat, li, build) ==
    IF ~b.ok THEN [ok |-> FALSE, err |-> b.err, material |-> None, ctx |-> b.ctx]
    ELSE [ok |-> TRUE, err |-> <<>>,
          material |-> with_textures(li, mat, b.texture_handles, build),
          ctx |-> LogBuild(b.ctx, li, b.texture_handles)]
run_loader_bind(d, mat, li, build, texOk) ==
    IF ~d.ok THEN [ok |-> FALSE, err |-> d.err, material |-> None, ctx |-> d.ctx]
    ELSE run_loader_build(
             bind_textures(LogEvent(LogEvent(d.ctx, li, "preprocess"), li, "static"),
                           mat,
                           texture_sources(mat, material_loaders[li],
                                           preprocess_textures(li, d.textures)),
                           1, EmptyMap, texOk),
             mat, li, build)
run_loader(ctx, mat, li, build, texOk) ==
    run_loader_bind(
        load_dynamic(LogEvent(ctx, li, "dynamic"), mat,
                     material_loaders[li].dynamic_load, 1, EmptyMap, texOk),
        mat, li, build, texOk)

\* lines 649-652: `if let Some(loader_material) = ... { material = ..; break }`
LoaderWinsNever(loader_material) == FALSE
LoaderWins(loader_material) == loader_material /= None

\* lines 646-653
RECURSIVE try_loaders(_, _, _, _, _), try_next(_, _, _, _, _)
try_loaders(ctx, mat, li, build, texOk) ==
    IF li > Len(material_loaders)
    THEN [ok |-> TRUE, err |-> <<>>, material |-> None, ctx |-> ctx]
    ELSE try_next(run_loader(ctx, mat, li, build, texOk), mat, li, build, texOk)
try_next(r, mat, li, build, texOk) ==
    IF ~r.ok THEN r
    ELSE IF LoaderWins(r.material) THEN r
    ELSE try_loaders(r.ctx, mat, li + 1, build, texOk)

\* line 639: self.scene.materials.get(&label)
MaterialCacheMiss(materials, label) == None
MaterialCacheGet(materials, label) ==
    IF label \in DOMAIN materials THEN Some(materials[label]) ELSE None

\* line 654: material.context("None of the material loaders could load ...")?
MaterialOrPlaceholder(material) ==
    [ok |-> TRUE, err |-> <<>>,
     material |-> IF material = None
                  THEN [kind |-> "StandardMaterial", loader |-> 0, material |-> 0,
                        textures |-> EmptyMap]
                  ELSE material[1]]
MaterialOrError(material) ==
    IF material = None
    THEN [ok |-> FALSE, material |-> None,
          err |-> <<"None of the material loaders could load this material">>]
    ELSE [ok |-> TRUE, material |-> material[1], err |-> <<>>]

\* lines 654-661: the material of the chain becomes an asset and a cache entry
store_material(r, m, label) ==
    IF ~m.ok
    THEN [ok |-> FALSE, err |-> m.err, hit |-> FALSE, handle |-> DefaultHandle,
          ctx |-> r.ctx]
    ELSE [ok |-> TRUE, err |-> <<>>, hit |-> FALSE, handle |-> Handle(label),
          ctx |-> [r.ctx EXCEPT
                     !.assets = Put(@, label, m.material),
                     !.scene.materials = Put(@, label, Handle(label))]]
\* lines 646-661: a cache miss
load_material_miss(r, label) ==
    IF ~r.ok
    THEN [ok |-> FALSE, err |-> r.err, hit |-> FALSE, handle |-> DefaultHandle,
          ctx |-> r.ctx]
    ELSE store_material(r, MaterialOrError(r.material), label)
\* lines 639-643: a cache hit
load_material_lookup(ctx, cached, mat, build, texOk) ==
    IF cached /= None
    THEN [ok |-> TRUE, err |-> <<>>, hit |-> TRUE,
          handle |-> clone_weak(cached[1]), ctx |-> ctx]
    ELSE load_material_miss(try_loaders(ctx, mat, 1, build, texOk), MaterialLabel(mat))
\* lines 631-662
load_material(ctx, mat, build, texOk) ==
    load_material_lookup(ctx, MaterialCacheGet(ctx.scene.materials, MaterialLabel(mat)),
                         mat, build, texOk)

----------------------------------------------------------------------------
(* MeshReconstructor: load_bevy_mesh.  geometry[node] holds what the parser
   returns for the mesh's geometry object: name, the step that fails (fault),
   the number of triangles, the number of triangles whose positions, UVs and
   normals resolve, and each triangle's material index. *)

Faults == {"none", "geometry", "polygon_vertices", "triangulate", "control_point",
           "layer", "normals", "uv", "material_layer", "tangents"}
NoGeometry == [name |-> None, fault |-> "none", triangles |-> 0, positions |-> 0,
               uvs |-> 0, normals |-> 0, slots |-> <<>>]

\* triangle_vertex_indices().map(|t| t.to_usize() as u32)
full_mesh_indices(g) == [i \in 1..(3 * g.triangles) |-> i - 1]
\* materials.material_index(&triangle_pvi_indices, tri_vi)
material_index(g, tri_vi) == g.slots[(tri_vi \div 3) + 1]

\* lines 308-316: indices_per_material.get_mut(local_material_index as usize)
get_mut_wrapping(index, len) == Some(index % len)
get_mut(index, len) == IF index < len THEN Some(index) ELSE None

\* line 317: .push(tri_vi.to_usize() as u32)
push_front(list, tri_vi) == <<tri_vi>> \o list
push(list, tri_vi) == Append(list, tri_vi)

\* lines 303-318
RECURSIVE partition_indices(_, _, _, _)
partition_indices(g, num_materials, tri_vi, per_material) ==
    IF tri_vi >= 3 * g.triangles
    THEN [ok |-> TRUE, err |-> <<>>, value |-> Some(per_material)]
    ELSE LET slot == get_mut(material_index(g, tri_vi), num_materials)
         IN IF slot = None
            THEN [ok |-> FALSE, value |-> None,
                  err |-> <<"FbxMesh-local material index out of range">>]
            ELSE partition_indices(g, num_materials, tri_vi + 1,
                     [per_material EXCEPT ![slot[1] + 1] = push(@, tri_vi)])

\* lines 289-320
indices_per_material(g, num_materials) ==
    IF num_materials = 0 THEN [ok |-> TRUE, err |-> <<>>, value |-> None]
    ELSE IF g.fault = "material_layer"
    THEN [ok |-> FALSE, value |-> None, err |-> <<"Materials not found for mesh">>]
    ELSE partition_indices(g, num_materials, 0, [s \in 1..num_materials |-> <<>>])

\* lines 363-370
LengthsNotChecked(positions, uv, normals) == FALSE
LengthMismatch(positions, uv, normals) == uv /= positions \/ uv /= normals

\* lines 257-361: the first step of the reconstruction that fails, if any
ReconstructionError(g) ==
    CASE g.fault = "polygon_vertices" -> <<"Failed to get polygon vertices">>
      [] g.fault = "triangulate" -> <<"Triangulation failed">>
      [] g.fault = "control_point" ->
            <<"Failed to reconstruct position vertices", "Failed to get control point">>
      [] g.fault = "layer" -> <<"Failed to get layer">>
      [] g.fault = "normals" -> <<"Failed to get normals">>
      [] g.fault = "uv" -> <<"Failed to get UV">>
      [] OTHER -> <<>>

\* lines 404-421
RECURSIVE register_primitives(_, _, _, _, _, _)
register_primitives(ctx, label, mesh, all_indices, i, all_handles) ==
    IF i >= Len(all_indices) THEN [ok |-> TRUE, err |-> <<>>, handles |-> all_handles, ctx |-> ctx]
    ELSE LET material_mesh == [mesh EXCEPT !.indices = all_indices[i + 1]]
             primitive_label == label \o ToString(i)
             handle == Handle(primitive_label)
         IN register_primitives(
                [ctx EXCEPT !.assets = Put(@, primitive_label, material_mesh),
                            !.scene.bevy_meshes = Put(@, handle, primitive_label)],
                label, mesh, all_indices, i + 1, Append(all_handles, handle))

\* lines 382-423: the index list of every material, then one primitive each
split_and_register(ctx, label, mesh, g, per_materials) ==
    IF ~per_materials.ok
    THEN [ok |-> FALSE, err |-> per_materials.err, handles |-> <<>>, ctx |-> ctx]
    ELSE IF g.fault = "tangents"
    THEN [ok |-> FALSE, err |-> <<"Failed to generate tangents">>, handles |-> <<>>,
          ctx |-> ctx]
    ELSE register_primitives(ctx, label, mesh,
                             IF per_materials.value /= None THEN per_materials.value[1]
                             ELSE <<full_mesh_indices(g)>>,
                             0, <<>>)

\* lines 237-423
load_bevy_mesh(ctx, node, num_materials) ==
    LET g == geometry[node]
        positions == 3 * g.positions
        normals == 3 * g.normals
        uv == 3 * g.uvs
    IN IF ReconstructionError(g) /= <<>>
       THEN [ok |-> FALSE, err |-> ReconstructionError(g), handles |-> <<>>, ctx |-> ctx]
       ELSE IF LengthMismatch(positions, uv, normals)
       THEN [ok |-> FALSE, err |-> <<"mismatched length of buffers">>,
             handles |-> <<>>, ctx |-> ctx]
       ELSE split_and_register(ctx, PrimitiveLabelPrefix(node),
                [kind |-> "Mesh", positions |-> positions, uv |-> uv,
                 normals |-> normals, indices |-> full_mesh_indices(g)],
                g, indices_per_material(g, num_materials))

----------------------------------------------------------------------------
(* SceneAssembler: spawn_scene.  The scene world is the sequence of the
   entities spawned, each with the position of its parent. *)

\* lines 170-177
RECURSIVE spawn_primitives(_, _, _, _)
spawn_primitives(mesh, i, parent, world) ==
    IF i > Len(mesh.materials) \/ i > Len(mesh.bevy_mesh_handles) THEN world
    ELSE spawn_primitives(mesh, i + 1, parent,
             Append(world, [kind |-> "primitive", id |-> 0, name |-> mesh.name,
                            parent |-> parent, material |-> mesh.materials[i],
                            mesh |-> mesh.bevy_mesh_handles[i]]))

\* lines 158-161: hierarchy.get(&current)
hierarchy_get_or_default(h, current) ==
    IF current \in DOMAIN h THEN Some(h[current])
    ELSE Some([name |-> None, children |-> <<>>])
hierarchy_get(h, current) ==
    IF current \in DOMAIN h THEN Some(h[current]) ELSE None

\* lines 151-182
RECURSIVE spawn_scene_rec(_, _, _, _, _), spawn_children(_, _, _, _, _, _)
spawn_scene_rec(current, parent, world, h, models) ==
    IF hierarchy_get(h, current) = None THEN world
    ELSE LET current_node == hierarchy_get(h, current)[1]
             spawned == Append(world, [kind |-> "node", id |-> current,
                                       name |-> current_node.name,
                                       parent |-> parent])
             entity == Len(spawned)
             withMesh == IF current \in DOMAIN models
                         THEN spawn_primitives(models[current], 1, entity, spawned)
                         ELSE spawned
         IN spawn_children(current_node.children, 1, entity, withMesh, h, models)
spawn_children(kids, i, parent, world, h, models) ==
    IF i > Len(kids) THEN world
    ELSE spawn_children(kids, i + 1, parent,
                        spawn_scene_rec(kids[i], parent, world, h, models), h, models)

\* lines 128-150
spawn_scene(rs, h, models) ==
    spawn_children(rs, 1, 1,
                   <<[kind |-> "root", id |-> 0, name |-> Some("FbxScene"),
                      parent |-> 0]>>, h, models)

----------------------------------------------------------------------------
(* Initial states *)

EmptyScene == [materials |-> EmptyMap, textures |-> EmptyMap,
               bevy_meshes |-> EmptyMap, meshes |-> EmptyMap,
               hierarchy |-> EmptyMap, roots |-> <<>>]
NoCur == [obj |-> 0, materials |-> <<>>]
NoResolve == [material |-> 0, label |-> "", hit |-> FALSE, ok |-> FALSE,
              handle |-> DefaultHandle, err |-> <<>>, events |-> <<>>,
              builds |-> <<>>, build |-> <<>>]

\* Loader::new (lines 185-196) and the locals of Loader::load
InitLoader ==
    /\ pc = "start"
    /\ hierarchy = EmptyMap
    /\ meshes = EmptyMap
    /\ objIdx = 1
    /\ cur = NoCur
    /\ scene = EmptyScene
    /\ assets = EmptyMap
    /\ result = [kind |-> "Pending"]
    /\ chainRuns = EmptyMap
    /\ lastResolve = NoResolve
    /\ decodes = {}

InitForest(N) ==
    /\ \E p \in Forests(N) :
          /\ children = ChildrenOf(p, N)
          /\ roots = RootsOf(p, N)
    /\ subclass \in [1..N -> {"Mesh", "LimbNode"}]

\* one triangle whose attributes all resolve
PlainGeometry == [name |-> None, fault |-> "none", triangles |-> 1, positions |-> 1,
                  uvs |-> 1, normals |-> 1, slots |-> <<0>>]
PlainGeometries == {PlainGeometry}

\* every geometry within the bounds
Geometries ==
    {[NoGeometry EXCEPT !.fault = f] : f \in Faults \ {"none"}} \cup
    UNION {[name : {None, Some(""), Some("Cube")}, fault : {"none"},
            triangles : {t}, positions : 0..MaxTriangles, uvs : 0..MaxTriangles,
            normals : 0..MaxTriangles, slots : [1..t -> 0..MaxMeshMaterials]]
           : t \in 0..MaxTriangles}

SlotLists == {<<>>} \cup {<<s>> : s \in Slots}
LoaderKinds == [static_load : SlotLists, dynamic_load : SlotLists]

\* the hierarchy specification: any forest, no materials
InitTree ==
    /\ InitForest(NumNodes)
    /\ objName \in [1..NumNodes -> {None, Some("Cube")}]
    /\ meshMaterials = [n \in 1..NumNodes |-> <<>>]
    /\ geometry = [n \in 1..NumNodes |-> NoGeometry]
    /\ matName = [m \in Materials |-> None]
    /\ matTex = [m \in Materials |-> [s \in Slots |-> NoTexture]]
    /\ material_loaders = <<>>
    /\ InitLoader

\* the scene specification: any forest, every mesh a plain mesh without materials
InitScene ==
    /\ InitForest(NumNodes)
    /\ objName \in [1..NumNodes -> {None, Some("Cube")}]
    /\ meshMaterials = [n \in 1..NumNodes |-> <<>>]
    /\ geometry = [n \in 1..NumNodes |->
                      IF subclass[n] = "Mesh" THEN PlainGeometry ELSE NoGeometry]
    /\ matName = [m \in Materials |-> None]
    /\ matTex = [m \in Materials |-> [s \in Slots |-> NoTexture]]
    /\ material_loaders = <<>>
    /\ InitLoader

\* a model that is no mesh, or a mesh with its materials and its geometry
ModelChoices(geometries) ==
    {[subclass |-> "LimbNode", materials |-> <<>>, geometry |-> NoGeometry]} \cup
    [subclass : {"Mesh"}, materials : SeqsUpTo(Materials, MaxMeshMaterials),
     geometry : geometries]

\* the load specification: any materials, textures and loaders, plain geometry
Init ==
    /\ children = [n \in 1..NumObjects |-> <<>>]
    /\ roots = [n \in 1..NumObjects |-> n]
    /\ \E model \in [1..NumObjects -> ModelChoices(PlainGeometries)] :
          /\ subclass = [n \in 1..NumObjects |-> model[n].subclass]
          /\ meshMaterials = [n \in 1..NumObjects |-> model[n].materials]
          /\ geometry = [n \in 1..NumObjects |-> model[n].geometry]
    /\ objName = [n \in 1..NumObjects |-> None]
    /\ matName \in [Materials -> MaterialNames]
    /\ matTex \in [Materials -> [Slots -> {NoTexture} \cup Textures]]
    /\ material_loaders \in SeqsUpTo(LoaderKinds, MaxLoaders)
    /\ InitLoader

\* the mesh specification: a first mesh of any geometry, then models that are
\* plain meshes or no meshes; two materials, the first with a texture, and one
\* loader that reads it
InitMesh ==
    /\ children = [n \in 1..NumObjects |-> <<>>]
    /\ roots = [n \in 1..NumObjects |-> n]
    /\ \E later \in [2..NumObjects -> {"Mesh", "LimbNode"}] :
          /\ subclass = [n \in 1..NumObjects |-> IF n = 1 THEN "Mesh" ELSE later[n]]
          /\ \E g \in Geometries :
                geometry = [n \in 1..NumObjects |->
                               IF n = 1 THEN g
                               ELSE IF later[n] = "Mesh" THEN PlainGeometry
                               ELSE NoGeometry]
    /\ \E name \in NodeNames :
          objName = [n \in 1..NumObjects |-> IF n = 1 THEN name ELSE None]
    /\ \E materials \in SeqsUpTo(Materials, MaxMeshMaterials) :
          meshMaterials = [n \in 1..NumObjects |-> IF n = 1 THEN materials ELSE <<>>]
    /\ matName = [m \in Materials |-> IF m = 1 THEN Some("Mat") ELSE Some("")]
    /\ matTex = [m \in Materials |->
                    [s \in Slots |-> IF m = 1 THEN Min(Textures) ELSE NoTexture]]
    /\ material_loaders = <<[static_load |-> SlotNames, dynamic_load |-> <<>>]>>
    /\ InitLoader

----------------------------------------------------------------------------
(* Loader::load and FbxLoader::load *)

Ctx == [scene |-> scene, assets |-> assets, decodes |-> decodes, events |-> <<>>,
        builds |-> <<>>]

\* lines 217 and 111-117: `self.load_mesh(mesh).await?` returns the error of a
\* mesh from Loader::load, and FbxLoader::load returns it as its own
AbortSkipsMesh(chain) ==
    /\ result' = result
    /\ pc' = "objects"
    /\ objIdx' = objIdx + 1
Abort(chain) ==
    /\ result' = LoadError(chain)
    /\ pc' = "done"
    /\ objIdx' = objIdx

\* lines 449-452: a mesh without materials is given the default material
materials_as_loaded(materials) == materials
materials_or_default(materials) ==
    IF Len(materials) = 0 THEN <<DefaultHandle>> ELSE materials

\* lines 198-213: the hierarchy of every root
StartLoad ==
    /\ pc = "start"
    /\ hierarchy' = traverse_roots(roots, 1, hierarchy)
    /\ pc' = "objects"
    /\ UNCHANGED <<docVars, meshes, objIdx, cur, scene, assets, result, histVars>>

\* lines 215-217 and 427-438: the next object of the document; a mesh model
\* starts load_mesh, anything else is passed over
NextObject ==
    /\ pc = "objects"
    /\ objIdx <= Cardinality(Nodes)
    /\ IF subclass[objIdx] /= "Mesh"
       THEN /\ objIdx' = objIdx + 1
            /\ UNCHANGED <<pc, cur, result>>
       ELSE IF geometry[objIdx].fault = "geometry"
       THEN /\ Abort(<<"Failed to get geometry">>)
            /\ UNCHANGED cur
       ELSE /\ cur' = [obj |-> objIdx, materials |-> <<>>]
            /\ pc' = IF meshMaterials[objIdx] = <<>> THEN "geometry" ELSE "materials"
            /\ UNCHANGED <<objIdx, result>>
    /\ UNCHANGED <<docVars, hierarchy, meshes, scene, assets, histVars>>

\* lines 444-448: load_material for the next material of the mesh
LoadMaterial ==
    /\ pc = "materials"
    /\ \E build \in [1..Len(material_loaders) -> BOOLEAN], texOk \in [Textures -> BOOLEAN] :
       \E mat \in {meshMaterials[cur.obj][Len(cur.materials) + 1]} :
       \E r \in {load_material(Ctx, mat, build, texOk)} :
            /\ scene' = r.ctx.scene
            /\ assets' = r.ctx.assets
            /\ decodes' = r.ctx.decodes
            /\ chainRuns' = IF r.hit THEN chainRuns
                            ELSE Put(chainRuns, MaterialLabel(mat),
                                     IF MaterialLabel(mat) \in DOMAIN chainRuns
                                     THEN chainRuns[MaterialLabel(mat)] + 1 ELSE 1)
            /\ lastResolve' = [material |-> mat, label |-> MaterialLabel(mat),
                               hit |-> r.hit, ok |-> r.ok, handle |-> r.handle,
                               err |-> r.err, events |-> r.ctx.events,
                               builds |-> r.ctx.builds,
                               build |-> build]
            /\ IF r.ok
               THEN /\ cur' = [cur EXCEPT !.materials = Append(@, r.handle)]
                    /\ pc' = IF Len(cur.materials) + 1 = Len(meshMaterials[cur.obj])
                             THEN "geometry" ELSE "materials"
                    /\ UNCHANGED <<result, objIdx>>
               ELSE /\ Abort(Context("Failed to load materials for mesh", r.err))
                    /\ UNCHANGED cur
    /\ UNCHANGED <<docVars, hierarchy, meshes>>

\* lines 449-470 and 217: the mesh's primitives, the FbxMesh, the next object
LoadGeometry ==
    /\ pc = "geometry"
    /\ \E material_count \in {Len(cur.materials)} :
       \E r \in {load_bevy_mesh(Ctx, cur.obj, material_count)} :
       \E mesh \in {[name |-> objName[cur.obj],
                     bevy_mesh_handles |-> r.handles,
                     materials |-> materials_or_default(cur.materials)]} :
          IF r.ok
          THEN /\ assets' = Put(r.ctx.assets, MeshLabel(cur.obj), mesh)
               /\ scene' = [r.ctx.scene EXCEPT
                              !.meshes = Put(@, cur.obj, Handle(MeshLabel(cur.obj)))]
               /\ meshes' = Put(meshes, cur.obj, mesh)
               /\ objIdx' = objIdx + 1
               /\ pc' = "objects"
               /\ UNCHANGED result
          ELSE /\ Abort(Context("Failed to load geometry mesh", r.err))
               /\ UNCHANGED <<assets, scene, meshes>>
    /\ UNCHANGED <<docVars, hierarchy, cur, histVars>>

\* lines 220-234 and 112: the scene tree and the two top-level assets
FinishLoad ==
    /\ pc = "objects"
    /\ objIdx > Cardinality(Nodes)
    /\ LET world == spawn_scene(roots, hierarchy, meshes)
           final == [scene EXCEPT !.hierarchy = hierarchy, !.roots = roots]
       IN /\ scene' = final
          /\ assets' = Put(Put(assets, "Scene", world), "FbxScene", final)
    /\ result' = [kind |-> "Ok"]
    /\ pc' = "done"
    /\ UNCHANGED <<docVars, hierarchy, meshes, objIdx, cur, histVars>>

Next == StartLoad \/ NextObject \/ LoadMaterial \/ LoadGeometry \/ FinishLoad
Spec == Init /\ [][Next]_vars

SpecMesh == InitMesh /\ [][Next]_vars

NextScene == StartLoad \/ NextObject \/ LoadGeometry \/ FinishLoad
SpecScene == InitScene /\ [][NextScene]_vars

NextTree == StartLoad
SpecTree == InitTree /\ [][NextTree]_vars

----------------------------------------------------------------------------
(* C1: once every root has been walked, a node that is not mesh geometry and
   has no mesh geometry below it is not a key of the hierarchy map *)
Pruned(n) == subclass[n] /= "Mesh" /\ \A d \in Descendants(n) : subclass[d] /= "Mesh"
C1_Pruning ==
    pc /= "start" => \A n \in Nodes : Pruned(n) => n \notin DOMAIN hierarchy
\* a walked forest where a reachable node was pruned next to a retained one
C1_Witness ==
    /\ pc /= "start"
    /\ \E n \in Reachable : Pruned(n) /\ n \notin DOMAIN hierarchy
    /\ DOMAIN hierarchy /= {}

(* C2: once every root has been walked, every mesh node reachable from a root
   and every node above it on the way from the root is a key of the hierarchy
   map, and a retained node's children are all its raw child ids *)
C2_Retained ==
    pc /= "start" =>
       /\ \A n \in Reachable :
             (\E d \in Subtree(n) : subclass[d] = "Mesh") => n \in DOMAIN hierarchy
       /\ \A n \in DOMAIN hierarchy : hierarchy[n].children = children[n]
\* root -> limb -> mesh, with a pruned sibling still listed among the children
C2_Witness ==
    /\ pc /= "start"
    /\ \E r \in Range(roots), l, m \in Nodes :
          /\ subclass[r] /= "Mesh" /\ subclass[l] /= "Mesh" /\ subclass[m] = "Mesh"
          /\ l \in Range(children[r]) /\ m \in Range(children[l])
          /\ {r, l, m} \subseteq DOMAIN hierarchy
          /\ m \in Range(hierarchy[l].children)
    /\ \E n \in DOMAIN hierarchy :
          \E c \in Range(hierarchy[n].children) : c \notin DOMAIN hierarchy

----------------------------------------------------------------------------
(* Properties of the load specification *)

PrimitivesMatch(n, M) ==
    /\ Len(meshes[n].bevy_mesh_handles) = Len(meshes[n].materials)
    /\ Len(meshes[n].materials) = (IF M = 0 THEN 1 ELSE M)

(* C3, as the source has it: every mesh that load_mesh converts has as many
   primitives as material handles, and that number is max(1, M) where M is
   the number of material connections of the mesh, a material connected
   twice counted twice; a mesh without materials has exactly one primitive
   and the default material *)
C3_PrimitivePerConnection ==
    \A n \in DOMAIN meshes :
        /\ PrimitivesMatch(n, Len(meshMaterials[n]))
        /\ \A i \in DOMAIN meshes[n].bevy_mesh_handles :
              /\ meshes[n].bevy_mesh_handles[i].id \in DOMAIN assets
              /\ assets[meshes[n].bevy_mesh_handles[i].id].kind = "Mesh"
        /\ meshMaterials[n] = <<>> => meshes[n].materials = <<DefaultHandle>>
C3_Witness ==
    \E n, k \in DOMAIN meshes :
        /\ meshMaterials[n] = <<>>
        /\ Len(meshes[n].bevy_mesh_handles) = 1
        /\ Len(meshMaterials[k]) = 2
        /\ meshMaterials[k][1] = meshMaterials[k][2]
        /\ Len(meshes[k].bevy_mesh_handles) = 2
(* C3 as stated, M being the number of distinct materials of the mesh *)
C3_DistinctMaterials ==
    \A n \in DOMAIN meshes : PrimitivesMatch(n, Cardinality(Range(meshMaterials[n])))

(* C4: a material label resolved again is answered from the cache with the
   handle of the asset the first call registered, the loader chain has run
   once for every label it ran for, and meshes that reference the same
   material hold handles of the same asset *)
C4_CachedMaterial ==
    /\ \A label \in DOMAIN chainRuns : chainRuns[label] = 1
    /\ \A label \in DOMAIN scene.materials :
          /\ label \in DOMAIN chainRuns
          /\ scene.materials[label] = Handle(label)
    /\ lastResolve.hit =>
          /\ lastResolve.ok
          /\ lastResolve.label \in DOMAIN scene.materials
          /\ lastResolve.handle.id = scene.materials[lastResolve.label].id
          /\ lastResolve.events = <<>>
    /\ \A n, k \in DOMAIN meshes :
       \A i \in DOMAIN meshMaterials[n], j \in DOMAIN meshMaterials[k] :
          MaterialLabel(meshMaterials[n][i]) = MaterialLabel(meshMaterials[k][j])
          => meshes[n].materials[i].id = meshes[k].materials[j].id
C4_Witness ==
    /\ lastResolve.hit
    /\ \E n, k \in DOMAIN meshes :
          /\ n /= k
          /\ \E i \in DOMAIN meshMaterials[n], j \in DOMAIN meshMaterials[k] :
                /\ meshMaterials[n][i] = meshMaterials[k][j]
                /\ meshes[n].materials[i].id = lastResolve.handle.id
                /\ meshes[k].materials[j].id = lastResolve.handle.id

Resolved == lastResolve.label /= ""
Ran == {lastResolve.events[i][1] : i \in DOMAIN lastResolve.events}
Built(li) == \E i \in DOMAIN lastResolve.events : lastResolve.events[i] = <<li, "build">>
Winners == {li \in Ran : Built(li) /\ lastResolve.build[li]}

(* C5: on a cache miss the loaders run in registration order, none skipped;
   when a loader's build returns a material the resolution succeeds with the
   material of the first such loader, and nothing of a later loader runs *)
C5_FirstLoaderWins ==
    (Resolved /\ ~lastResolve.hit) =>
        /\ \A i, j \in DOMAIN lastResolve.events :
              i < j => lastResolve.events[i][1] <= lastResolve.events[j][1]
        /\ \A li \in Ran : \A lj \in 1..li : lj \in Ran
        /\ \A li \in Ran :
              \E i \in DOMAIN lastResolve.events :
                  /\ lastResolve.events[i] = <<li, "dynamic">>
                  /\ \A j \in DOMAIN lastResolve.events :
                        lastResolve.events[j][1] = li => i <= j
        /\ \A w \in Winners :
              /\ Winners = {w}
              /\ \A li \in Ran : li <= w
              /\ \A li \in 1..(w - 1) : Built(li) /\ ~lastResolve.build[li]
              /\ lastResolve.ok
              /\ assets[lastResolve.label].loader = w
              /\ assets[lastResolve.label].material = lastResolve.material
C5_Witness ==
    /\ Resolved /\ ~lastResolve.hit /\ lastResolve.ok
    /\ Len(material_loaders) = 2
    /\ lastResolve.build = <<TRUE, TRUE>>
    /\ Ran = {1}
    /\ assets[lastResolve.label].loader = 1

(* C6: when the build of every configured loader returns no material, an
   empty loader list included, the resolution fails with the error that none
   of the material loaders could load the material, the label gets no entry
   in the material cache, and the mesh that references the material fails *)
NoLoaderBuilt ==
    /\ Resolved /\ ~lastResolve.hit
    /\ \A li \in 1..Len(material_loaders) : Built(li) /\ ~lastResolve.build[li]
C6_NoLoaderFails ==
    NoLoaderBuilt =>
        /\ ~lastResolve.ok
        /\ lastResolve.err = <<"None of the material loaders could load this material">>
        /\ lastResolve.label \notin DOMAIN scene.materials
        /\ lastResolve.label \notin DOMAIN assets
        /\ cur.obj \notin DOMAIN meshes
        /\ pc = "done" /\ result.kind = "Other"
        /\ result.logged = <<"Failed to load materials for mesh",
                             "None of the material loaders could load this material">>
C6_Witness ==
    /\ NoLoaderBuilt
    /\ Len(material_loaders) = 2
    /\ lastResolve.material \in Range(meshMaterials[cur.obj])
    /\ \E n \in DOMAIN meshes : n < cur.obj
    /\ result.kind = "Other"

(* C10 as stated: a texture reference whose label is in the texture cache is
   never read and decoded again *)
C10_NoRedecode == \A d \in decodes : ~d.cached

StaticSlots(li) == Range(material_loaders[li].static_load)
NoTextures(mat) == \A s \in Slots : matTex[mat][s] = NoTexture

(* C11: a static slot of a loader for which the material has no texture does
   not fail the loader: the loader's build is called, the slot is no key of
   the handles it is given, nothing is cached for the slot, and a material
   without any texture never fails with a texture error; a static slot that
   has a texture is a key of the handles *)
C11_MissingStaticSlot ==
    (Resolved /\ ~lastResolve.hit) =>
        /\ \A i \in DOMAIN lastResolve.builds :
           \A s \in StaticSlots(lastResolve.builds[i].loader) :
              IF matTex[lastResolve.material][s] = NoTexture
              THEN /\ s \notin DOMAIN lastResolve.builds[i].texture_handles
                   /\ ProcessedLabel(lastResolve.material, s) \notin DOMAIN scene.textures
              ELSE s \in DOMAIN lastResolve.builds[i].texture_handles
        /\ NoTextures(lastResolve.material) =>
              /\ \A li \in Ran : Built(li)
              /\ Len(lastResolve.builds) = Cardinality(Ran)
              /\ lastResolve.ok \/ lastResolve.err =
                    <<"None of the material loaders could load this material">>
              /\ scene.textures = EmptyMap \/ \E m \in Materials : ~NoTextures(m)
C11_Witness ==
    /\ Resolved /\ ~lastResolve.hit /\ lastResolve.ok
    /\ NoTextures(lastResolve.material)
    /\ Len(lastResolve.builds) = 1
    /\ StaticSlots(1) = Slots
    /\ lastResolve.builds[1].texture_handles = EmptyMap
    /\ assets[lastResolve.label].textures = EmptyMap
    /\ \E m \in Materials : ~NoTextures(m)

DynamicOnlySlots(li) ==
    Range(material_loaders[li].dynamic_load) \ Range(material_loaders[li].static_load)

(* C15 as stated: the handle a loader's build receives for a slot the loader
   preprocesses refers to the image that loader's own preprocess step made *)
C15_OwnProcessedImage ==
    (Resolved /\ ~lastResolve.hit) =>
        \A i \in DOMAIN lastResolve.builds :
        \A s \in DynamicOnlySlots(lastResolve.builds[i].loader) :
            s \in DOMAIN lastResolve.builds[i].texture_handles =>
                assets[lastResolve.builds[i].texture_handles[s].id].processed_by
                    = lastResolve.builds[i].loader
----------------------------------------------------------------------------
(* Properties of the mesh specification *)

\* load_bevy_mesh has returned for mesh n, the mesh Loader::load handled last
GeometryDone(n) ==
    /\ cur.obj = n
    /\ Len(cur.materials) = Len(meshMaterials[n])
    /\ pc \in {"objects", "done"}
PrimitiveLabels(n) ==
    {PrimitiveLabelPrefix(n) \o ToString(i) : i \in 0..(MaxMeshMaterials + 1)}
NoPrimitive(n) ==
    /\ n \notin DOMAIN meshes
    /\ n \notin DOMAIN scene.meshes
    /\ \A label \in PrimitiveLabels(n) :
          /\ label \notin DOMAIN assets
          /\ Handle(label) \notin DOMAIN scene.bevy_meshes
Reconstructed(g) == g.fault \in {"none", "material_layer", "tangents"}
CountsDiffer(g) == g.uvs /= g.positions \/ g.uvs /= g.normals
MismatchedMesh(n) ==
    GeometryDone(n) /\ Reconstructed(geometry[n]) /\ CountsDiffer(geometry[n])

(* C7, as the source has it: the primitives of a mesh that was converted hold
   position, UV and normal arrays of one length, the lengths reconstructed;
   a mesh whose reconstructed counts differ fails before any primitive is
   registered, and the load returns FbxLoadingError::Other with the message
   of the outermost context, the mismatch being named in the logged chain *)
C7_EqualLengths ==
    /\ \A n \in DOMAIN meshes :
       \A i \in DOMAIN meshes[n].bevy_mesh_handles :
          LET primitive == assets[meshes[n].bevy_mesh_handles[i].id]
          IN /\ primitive.positions = primitive.uv
             /\ primitive.uv = primitive.normals
             /\ primitive.positions = 3 * geometry[n].positions
             /\ primitive.uv = 3 * geometry[n].uvs
             /\ primitive.normals = 3 * geometry[n].normals
    /\ \A n \in Nodes :
          MismatchedMesh(n) =>
              /\ NoPrimitive(n)
              /\ pc = "done"
              /\ result = [kind |-> "Other",
                           message |-> "Failed to load geometry mesh",
                           logged |-> <<"Failed to load geometry mesh",
                                        "mismatched length of buffers">>]
C7_Witness ==
    /\ \E n \in Nodes :
          /\ MismatchedMesh(n)
          /\ geometry[n].uvs < geometry[n].positions
          /\ meshMaterials[n] /= <<>>
          /\ result.kind = "Other"
(* C7 as stated: mismatched counts fail with the AttributeLengthMismatch kind *)
C7_MismatchKind ==
    \A n \in Nodes : MismatchedMesh(n) => result.kind = "AttributeLengthMismatch"

SlotOutOfRange(n) ==
    /\ meshMaterials[n] /= <<>>
    /\ \E t \in DOMAIN geometry[n].slots :
          geometry[n].slots[t] >= Len(meshMaterials[n])

(* C8: a mesh with M > 0 materials whose material layer gives a triangle a
   slot index outside [0, M) fails to load, none of its primitives is
   registered, and the whole load ends in an error *)
C8_SlotOutOfRange ==
    \A n \in Nodes :
        (GeometryDone(n) /\ geometry[n].fault = "none" /\ SlotOutOfRange(n)) =>
            /\ NoPrimitive(n)
            /\ pc = "done"
            /\ result.kind = "Other"
C8_Witness ==
    \E n \in Nodes :
        /\ GeometryDone(n) /\ geometry[n].fault = "none" /\ SlotOutOfRange(n)
        /\ ~CountsDiffer(geometry[n])
        /\ Len(meshMaterials[n]) = 2
        /\ geometry[n].slots = <<0, 2>>
        /\ result.logged = <<"Failed to load geometry mesh",
                             "FbxMesh-local material index out of range">>

MeshObjects == {n \in Nodes : subclass[n] = "Mesh"}

(* C9: a load that ends has either converted every mesh object and returned
   the scene, or returned one error; with the error neither "Scene" nor
   "FbxScene" is registered, the failed mesh and the mesh objects after it
   are not converted, and the top-level assets exist only with success *)
C9_WholeLoadFails ==
    /\ (pc = "done" /\ result.kind = "Ok") =>
          /\ \A n \in MeshObjects : n \in DOMAIN meshes
          /\ {"Scene", "FbxScene"} \subseteq DOMAIN assets
    /\ (pc = "done" /\ result.kind /= "Ok") =>
          /\ result.kind = "Other"
          /\ result.message = Head(result.logged)
          /\ objIdx \in MeshObjects
          /\ \A n \in Nodes : n >= objIdx => NoPrimitive(n)
    /\ result.kind /= "Ok" =>
          /\ "Scene" \notin DOMAIN assets
          /\ "FbxScene" \notin DOMAIN assets
          /\ scene.roots = <<>>
    /\ (pc /= "done" <=> result.kind = "Pending")
C9_Witness ==
    /\ pc = "done" /\ result.kind = "Other"
    /\ objIdx = 1
    /\ \E n \in MeshObjects : n > objIdx /\ n \notin DOMAIN meshes
    /\ "Failed to load texture image" \in Range(result.logged)
    /\ "Scene" \notin DOMAIN assets

GeometryLabel(n) ==
    IF geometry[n].name \in {None, Some("")}
    THEN "FbxMesh" \o ToString(GeometryId(n))
    ELSE "FbxMesh@" \o geometry[n].name[1]
Registered(n, i, label) ==
    /\ meshes[n].bevy_mesh_handles[i] = Handle(label)
    /\ label \in DOMAIN assets
    /\ assets[label].kind = "Mesh"
    /\ Handle(label) \in DOMAIN scene.bevy_meshes
    /\ scene.bevy_meshes[Handle(label)] = label

(* C13, as the source has it: a converted mesh is registered under
   "FbxMesh@{name}" or "FbxMesh{id}" of its model; its slot-i primitive is
   registered under "FbxMesh@{name}/Primitive{i}" with the non-empty name of
   its geometry object, else "FbxMesh{id}/Primitive{i}" with the id of the
   geometry object, and bevy_meshes maps the primitive's handle to that label *)
C13_PrimitiveLabels ==
    \A n \in DOMAIN meshes :
        /\ MeshLabel(n) \in DOMAIN assets
        /\ assets[MeshLabel(n)] = meshes[n]
        /\ scene.meshes[n] = Handle(MeshLabel(n))
        /\ \A i \in DOMAIN meshes[n].bevy_mesh_handles :
              Registered(n, i, GeometryLabel(n) \o "/Primitive" \o ToString(i - 1))
C13_Witness ==
    \E n \in DOMAIN meshes :
        /\ objName[n] = Some("Cube")
        /\ geometry[n].name = None
        /\ Len(meshes[n].bevy_mesh_handles) = 2
        /\ Registered(n, 2, "FbxMesh301/Primitive1")
        /\ "FbxMesh@Cube" \in DOMAIN assets
(* C13 as stated: the primitive's label is the label of the mesh asset followed
   by "/Primitive{i}" *)
C13_MeshLabelPrefix ==
    \A n \in DOMAIN meshes :
    \A i \in DOMAIN meshes[n].bevy_mesh_handles :
        Registered(n, i, MeshLabel(n) \o "/Primitive" \o ToString(i - 1))

TriangleVertices(n) == 0..(3 * geometry[n].triangles - 1)
PrimitiveIndices(n, i) == assets[meshes[n].bevy_mesh_handles[i].id].indices
SlotOf(n, v) == geometry[n].slots[(v \div 3) + 1]

(* C14: for a converted mesh with M > 0 materials the index lists of its M
   primitives partition the triangle vertex indices: list i holds exactly
   the indices whose triangle is assigned slot i, each once, in increasing
   order; with M = 0 the one list is the full index list *)
C14_IndexPartition ==
    \A n \in DOMAIN meshes :
        IF meshMaterials[n] = <<>>
        THEN /\ Len(meshes[n].bevy_mesh_handles) = 1
             /\ PrimitiveIndices(n, 1) = [k \in 1..(3 * geometry[n].triangles) |-> k - 1]
        ELSE /\ Len(meshes[n].bevy_mesh_handles) = Len(meshMaterials[n])
             /\ \A i \in DOMAIN meshes[n].bevy_mesh_handles :
                   /\ \A k \in DOMAIN PrimitiveIndices(n, i) :
                         /\ PrimitiveIndices(n, i)[k] \in TriangleVertices(n)
                         /\ SlotOf(n, PrimitiveIndices(n, i)[k]) = i - 1
                   /\ \A k, l \in DOMAIN PrimitiveIndices(n, i) :
                         k < l => PrimitiveIndices(n, i)[k] < PrimitiveIndices(n, i)[l]
             /\ \A v \in TriangleVertices(n) :
                   /\ SlotOf(n, v) < Len(meshMaterials[n])
                   /\ v \in Range(PrimitiveIndices(n, SlotOf(n, v) + 1))
C14_Witness ==
    /\ \E n \in DOMAIN meshes :
          /\ Len(meshMaterials[n]) = 2
          /\ geometry[n].slots = <<1, 0>>
          /\ PrimitiveIndices(n, 1) = <<3, 4, 5>>
          /\ PrimitiveIndices(n, 2) = <<0, 1, 2>>
    /\ \E n \in DOMAIN meshes :
          /\ meshMaterials[n] = <<>>
          /\ PrimitiveIndices(n, 1) = <<0, 1, 2>>
----------------------------------------------------------------------------
(* Properties of the scene specification *)

World == assets["Scene"]
NodeEntities == {e \in DOMAIN World : World[e].kind = "node"}
EntitiesOf(id) == {e \in NodeEntities : World[e].id = id}

(* C12: the world spawn_scene builds from the roots has exactly one node
   entity for every id of the hierarchy map and none for any other id, each
   under the scene root if its id is a root and under the entity of its
   parent model otherwise; a root or child id that is no key of the map is
   passed over and the load succeeds *)
C12_SceneTree ==
    "Scene" \in DOMAIN assets =>
        /\ result.kind = "Ok"
        /\ World[1].kind = "root"
        /\ \A id \in DOMAIN hierarchy : Cardinality(EntitiesOf(id)) = 1
        /\ \A e \in NodeEntities :
              /\ World[e].id \in DOMAIN hierarchy
              /\ World[e].name = objName[World[e].id]
              /\ World[e].parent < e
              /\ IF World[e].id \in Range(roots)
                 THEN World[e].parent = 1
                 ELSE /\ World[e].parent \in NodeEntities
                      /\ World[e].id \in Range(children[World[World[e].parent].id])
        /\ \A id \in Nodes \ DOMAIN hierarchy : EntitiesOf(id) = {}
C12_Witness ==
    /\ "Scene" \in DOMAIN assets
    /\ \E r \in Range(roots) : r \notin DOMAIN hierarchy
    /\ \E n \in DOMAIN hierarchy :
          /\ n \notin Range(roots)
          /\ Cardinality(EntitiesOf(n)) = 1
          /\ \E c \in Range(children[n]) : c \notin DOMAIN hierarchy

====
